---------------------------- MODULE Spec2Model ----------------------------
(***************************************************************************)
(* A model of the `trash` shell (src/src/main.rs): the tokenizer, the      *)
(* parser with variable expansion, the read-eval loop of Shell::run, the   *)
(* builtins, and the fork / process-group / terminal-foreground protocol   *)
(* of Shell::spawn_foreground, with the parent and the child interleaved.  *)
(*                                                                         *)
(* Text is a sequence of characters; a character is a one-character        *)
(* string, except NUL, which is written "NUL".                             *)
(***************************************************************************)
EXTENDS Integers, Sequences, FiniteSets, TLC

VARIABLES
    pc,           \* position of the shell process in main / Shell::new / Shell::run
    exit_code,    \* exit status of the shell process, -1 while it is alive
    input,        \* `input` of Shell::run: the line read in this iteration
    tokens,       \* `tokens` of Shell::run
    command,      \* the result of parser.parse(tokens)
    env,          \* the process environment (read only)
    cwd,          \* working directory of the shell process
    diag,         \* the diagnostic printed by the current iteration, "none" if none
    last_status,  \* Shell.last_status
    wait_result,  \* value returned by waitpid in spawn_foreground, -1 if none
    ignored,      \* signals whose disposition is SIG_IGN in the shell
    shell_pgid,   \* process group of the shell process
    fg,           \* foreground process group of the controlling terminal
    children,     \* child pid -> its record, for every child forked and not reaped
    child,        \* `child` of spawn_foreground: pid returned by the last fork
    nforks,       \* number of successful forks so far
    world         \* facts of the surroundings the shell was started in

vars == <<pc, exit_code, input, tokens, command, env, cwd, diag, last_status,
          wait_result, ignored, shell_pgid, fg, children, child, nforks, world>>

---------------------------------------------------------------------------
(* Bounds of the model.                                                    *)

\* longest input string given to tokenize in SpecTok
MaxLen == 5
\* number of successful forks after which fork only fails
MaxForks == 2

---------------------------------------------------------------------------
(* Characters.                                                             *)

\* char::is_whitespace, on the characters of the model
IsWhitespace(c) == c \in {" ", "\n", "\t", "\r"}

\* str::trim().is_empty()
TrimIsEmpty(s) == \A i \in 1..Len(s) : IsWhitespace(s[i])

\* the character class [a-zA-Z0-9_] of variable_regex
NameChars ==
    {"a","b","c","d","e","f","g","h","i","j","k","l","m",
     "n","o","p","q","r","s","t","u","v","w","x","y","z",
     "A","B","C","D","E","F","G","H","I","J","K","L","M",
     "N","O","P","Q","R","S","T","U","V","W","X","Y","Z",
     "0","1","2","3","4","5","6","7","8","9","_"}

---------------------------------------------------------------------------
(* Tokens.                                                                 *)

\* Token::Word(text, quoting)
Word(text, quoting) == [type |-> "Word", text |-> text, quoting |-> quoting, op |-> "-"]

\* Token::Operator(op)
OperatorTok(op) == [type |-> "Operator", text |-> <<>>, quoting |-> "-", op |-> op]

\* Token::Whitespace
WhitespaceTok == [type |-> "Whitespace", text |-> <<>>, quoting |-> "-", op |-> "-"]

IsWord(t) == t.type = "Word"

---------------------------------------------------------------------------
(* Parser::tokenize.  The state of the loop is                             *)
(* [sq: single_quotes, dq: double_quotes, cur: current, toks: tokens].     *)

TokInit == [sq |-> FALSE, dq |-> FALSE, cur |-> <<>>, toks |-> <<>>]

\* "remove preceding whitespace", at the top of every iteration
ClearLeading(st) ==
    IF ~st.sq /\ ~st.dq /\ TrimIsEmpty(st.cur) THEN [st EXCEPT !.cur = <<>>] ELSE st

\* if !current.trim().is_empty() { push Word(current, Unquoted); current.clear() }
FlushUnquoted(st) ==
    IF ~TrimIsEmpty(st.cur)
    THEN [st EXCEPT !.toks = Append(@, Word(st.cur, "Unquoted")), !.cur = <<>>]
    ELSE st

PushWhitespaceAlways(toks) == Append(toks, WhitespaceTok)

\* "only push if last token is not whitespace"
PushWhitespace(toks) ==
    IF Len(toks) > 0 /\ toks[Len(toks)].type = "Whitespace"
    THEN toks
    ELSE Append(toks, WhitespaceTok)

\* the whitespace arm
OnWhitespace(st) ==
    LET f == FlushUnquoted(st)
    IN  [f EXCEPT !.toks = PushWhitespace(@), !.cur = <<>>]

OnSingleQuoteAlwaysFlush(st) ==
    LET f == [st EXCEPT
                !.toks = Append(@, Word(st.cur,
                            IF st.sq THEN "SingleQuoted" ELSE "Unquoted")),
                !.cur = <<>>]
    IN  [f EXCEPT !.sq = ~st.sq]

\* the '\'' arm
OnSingleQuote(st) ==
    LET f == IF st.cur /= <<>>
             THEN [st EXCEPT
                     !.toks = Append(@, Word(st.cur,
                                 IF st.sq THEN "SingleQuoted" ELSE "Unquoted")),
                     !.cur = <<>>]
             ELSE st
    IN  [f EXCEPT !.sq = ~st.sq]

OnDoubleQuoteUntagged(st) ==
    LET f == IF st.cur /= <<>>
             THEN [st EXCEPT !.toks = Append(@, Word(st.cur, "Unquoted")),
                             !.cur = <<>>]
             ELSE st
    IN  [f EXCEPT !.dq = ~st.dq]

\* the '"' arm
OnDoubleQuote(st) ==
    LET f == IF st.cur /= <<>>
             THEN [st EXCEPT
                     !.toks = Append(@, Word(st.cur,
                                 IF st.dq THEN "DoubleQuoted" ELSE "Unquoted")),
                     !.cur = <<>>]
             ELSE st
    IN  [f EXCEPT !.dq = ~st.dq]

\* the '&' and ';' arms, once the operator is known
OnOperator(st, op) ==
    LET f == FlushUnquoted(st)
    IN  [f EXCEPT !.toks = Append(@, OperatorTok(op)), !.cur = <<>>]

EscapeProtectsDollar(c) ==
    IF c = "n" THEN "\n"
    ELSE IF c = "t" THEN "\t"
    ELSE IF c = "r" THEN "\r"
    ELSE IF c = "0" THEN "NUL"
    ELSE IF c = "$" THEN "\\"
    ELSE c

\* the character a backslash escape pushes
Escape(c) ==
    IF c = "n" THEN "\n"
    ELSE IF c = "t" THEN "\t"
    ELSE IF c = "r" THEN "\r"
    ELSE IF c = "0" THEN "NUL"
    ELSE c

PushChar(st, c) == [st EXCEPT !.cur = Append(@, c)]

TokFinishKeepsOpenQuote(st) ==
    IF ~TrimIsEmpty(st.cur)
    THEN Append(st.toks, Word(st.cur, "Unquoted"))
    ELSE st.toks

\* after the loop: a word still open in a quote is discarded
TokFinish(st) ==
    IF ~TrimIsEmpty(st.cur) /\ ~st.sq /\ ~st.dq
    THEN Append(st.toks, Word(st.cur, "Unquoted"))
    ELSE st.toks

RECURSIVE TokLoop(_, _, _)
\* the while-let loop from character i of s on, in state st0
TokLoop(s, i, st0) ==
    IF i > Len(s) THEN TokFinish(st0)
    ELSE
      LET c  == s[i]
          st == ClearLeading(st0)
      IN  IF IsWhitespace(c) /\ ~st.sq /\ ~st.dq
            THEN TokLoop(s, i + 1, OnWhitespace(st))
          ELSE IF c = "'" /\ ~st.dq
            THEN TokLoop(s, i + 1, OnSingleQuote(st))
          ELSE IF c = "\"" /\ ~st.sq
            THEN TokLoop(s, i + 1, OnDoubleQuote(st))
          ELSE IF c = "&" /\ ~st.sq /\ ~st.dq
            THEN IF i < Len(s) /\ s[i + 1] = "&"
                 THEN TokLoop(s, i + 2, OnOperator(st, "And"))
                 ELSE TokLoop(s, i + 1, OnOperator(st, "Andpercent"))
          ELSE IF c = ";" /\ ~st.sq /\ ~st.dq
            THEN TokLoop(s, i + 1, OnOperator(st, "Semicolon"))
          ELSE IF c = "\\"
            THEN IF i < Len(s)
                 THEN TokLoop(s, i + 2, PushChar(st, Escape(s[i + 1])))
                 ELSE TokLoop(s, i + 1, st)
          ELSE TokLoop(s, i + 1, PushChar(st, c))

Tokenize(s) == TokLoop(s, 1, TokInit)

---------------------------------------------------------------------------
(* Variable expansion and Parser::parse.                                   *)

EnvVarKeepsLiteral(e, k) == IF k \in DOMAIN e THEN e[k] ELSE <<"$">> \o k

\* env::var(k).unwrap_or_default()
EnvVar(e, k) == IF k \in DOMAIN e THEN e[k] ELSE <<>>

RECURSIVE NameRunEnd(_, _)
\* last index of the longest run of name characters of w that starts at i
NameRunEnd(w, i) ==
    IF i < Len(w) /\ w[i + 1] \in NameChars THEN NameRunEnd(w, i + 1) ELSE i

RECURSIVE ReplaceAll(_, _, _)
\* variable_regex.replace_all(word, |caps| env::var(&caps[1]).unwrap_or_default()),
\* from character i of w on: leftmost non-overlapping matches of
\* \$([a-zA-Z0-9_]+|\$|!), the replacement text is not scanned again
ReplaceAll(e, w, i) ==
    IF i > Len(w) THEN <<>>
    ELSE IF w[i] = "$" /\ i < Len(w) /\ w[i + 1] \in NameChars
      THEN LET j == NameRunEnd(w, i + 1)
           IN  EnvVar(e, SubSeq(w, i + 1, j)) \o ReplaceAll(e, w, j + 1)
    ELSE IF w[i] = "$" /\ i < Len(w) /\ w[i + 1] \in {"$", "!"}
      THEN EnvVar(e, <<w[i + 1]>>) \o ReplaceAll(e, w, i + 2)
    ELSE <<w[i]>> \o ReplaceAll(e, w, i + 1)

ArgOfExpandAll(e, t) == ReplaceAll(e, t.text, 1)

\* the filter_map closure of parse, on a Word token
ArgOf(e, t) ==
    IF t.quoting = "SingleQuoted" THEN t.text ELSE ReplaceAll(e, t.text, 1)

RECURSIVE CollectArgsKeepOperators(_, _, _)
CollectArgsKeepOperators(e, toks, i) ==
    IF i > Len(toks) THEN <<>>
    ELSE IF toks[i].type \in {"Word", "Operator"}
      THEN <<ArgOf(e, toks[i])>> \o CollectArgsKeepOperators(e, toks, i + 1)
    ELSE CollectArgsKeepOperators(e, toks, i + 1)

RECURSIVE CollectArgs(_, _, _)
\* tokens.into_iter().filter_map(..).collect(), from token i on
CollectArgs(e, toks, i) ==
    IF i > Len(toks) THEN <<>>
    ELSE IF IsWord(toks[i])
      THEN <<ArgOf(e, toks[i])>> \o CollectArgs(e, toks, i + 1)
    ELSE CollectArgs(e, toks, i + 1)

\* the values of Option<Command>, and "Panic" where parse does not return
NoCommand    == [kind |-> "None",     cmd |-> <<>>, args |-> <<>>]
ParsePanic   == [kind |-> "Panic",    cmd |-> <<>>, args |-> <<>>]
BuiltinExit  == [kind |-> "Exit",     cmd |-> <<>>, args |-> <<>>]
BuiltinCd(args) == [kind |-> "Cd",    cmd |-> <<>>, args |-> args]
\* ExternalCommand::new(cmd, args)
ExternalCommand(cmd, args) == [kind |-> "External", cmd |-> cmd, args |-> args]

\* Parser::parse
Parse(e, toks) ==
    IF toks = <<>> THEN NoCommand
    ELSE LET args == CollectArgs(e, toks, 1)
         IN  IF args = <<>> THEN ParsePanic            \* args[0]: index out of bounds
             ELSE IF args[1] = <<"e", "x", "i", "t">> THEN BuiltinExit
             ELSE IF args[1] = <<"c", "d">> THEN BuiltinCd(args)
             ELSE ExternalCommand(args[1], args)

---------------------------------------------------------------------------
(* The surroundings: environment, file system, programs, input lines.      *)

\* the name HOME
Home == <<"H", "O", "M", "E">>

\* the environments the shell is started with in Spec
ReplEnvs ==
    { [k \in S |-> IF k = Home THEN <<"/", "h">> ELSE <<"x">>] :
        S \in SUBSET {Home, <<"a">>} }

\* the directories that exist: chdir succeeds on these alone
Dirs == {<<"/">>, <<"a">>, <<"/", "h">>}

\* the program names execvp finds
Programs == {<<"a">>}

\* the lines read_line returns in Spec (the last one is a final line with no newline)
Lines ==
    { <<"\n">>,
      <<" ", "\n">>,
      <<";", "\n">>,
      <<"'", "a", "\n">>,
      <<"e", "x", "i", "t", "\n">>,
      <<"c", "d", "\n">>,
      <<"c", "d", " ", "a", "\n">>,
      <<"c", "d", " ", "b", "\n">>,
      <<"c", "d", " ", "a", " ", "b", "\n">>,
      <<"a", "\n">>,
      <<"b", "\n">>,
      <<"$", "a", "\n">>,
      <<"a", " ", "\\", "0", "\n">>,
      <<"a">> }

\* getpid() of the shell process
ShellPid == 1

\* no child process
NoChildren == [p \in {} |-> 0]

\* some process of group g exists (the shell, or a child forked and not reaped)
GroupExists(g) ==
    \/ g = shell_pgid
    \/ \E p \in DOMAIN children : children[p].pgid = g

\* the process p ends with status s: it stays as a zombie until waited for,
\* unless SIGCHLD is ignored, and then it is reaped at once
Terminated(p, s) ==
    IF world.sigchldIgnored
    THEN [q \in DOMAIN children \ {p} |-> children[q]]
    ELSE [children EXCEPT ![p].st = "zombie", ![p].status = s]

\* the shell process has ended
ShellEnded ==
    pc \in {"exit_eof", "exit_builtin", "panic_new", "panic_run",
            "panic_parse", "panic_read", "panic_wait"}

---------------------------------------------------------------------------
(* main and Shell::new.                                                    *)

Init ==
    /\ pc = "new_signal"
    /\ exit_code = -1
    /\ input = <<>>
    /\ tokens = <<>>
    /\ command = NoCommand
    /\ env \in ReplEnvs
    /\ cwd = <<"/">>
    /\ diag = "none"
    /\ last_status = 0
    /\ wait_result = -1
    /\ ignored = {}
    /\ world \in [sessionLeader : BOOLEAN, isTty : BOOLEAN, sigchldIgnored : BOOLEAN]
    /\ shell_pgid = IF world.sessionLeader THEN ShellPid ELSE 0
    /\ fg = 0
    /\ children = NoChildren
    /\ child = 0
    /\ nforks = 0

\* signal(SIGTTOU, SigIgn)?; signal(SIGTSTP, SigIgn)?
NewSignals ==
    /\ pc = "new_signal"
    /\ ignored' = {"SIGTTOU", "SIGTSTP"}
    /\ pc' = "new_setpgid"
    /\ UNCHANGED <<exit_code, input, tokens, command, env, cwd, diag, last_status,
                   wait_result, shell_pgid, fg, children, child, nforks, world>>

NewSetpgidIgnoresError ==
    /\ pc = "new_setpgid"
    /\ pc' = "new_tcsetpgrp"
    /\ shell_pgid' = ShellPid
    /\ UNCHANGED <<exit_code, input, tokens, command, env, cwd, diag, last_status,
                   wait_result, ignored, fg, children, child, nforks, world>>

\* setpgid(shell_pid, shell_pid)?  (EPERM for a session leader; the error
\* leaves Shell::new and main's expect panics)
NewSetpgid ==
    /\ pc = "new_setpgid"
    /\ IF world.sessionLeader
       THEN /\ pc' = "panic_new"
            /\ exit_code' = 101
            /\ UNCHANGED shell_pgid
       ELSE /\ pc' = "new_tcsetpgrp"
            /\ shell_pgid' = ShellPid
            /\ UNCHANGED exit_code
    /\ UNCHANGED <<input, tokens, command, env, cwd, diag, last_status,
                   wait_result, ignored, fg, children, child, nforks, world>>

\* tcsetpgrp(&stdin, shell_pid)?  (ENOTTY when stdin is no terminal), then Ok(Self{..})
NewTcsetpgrp ==
    /\ pc = "new_tcsetpgrp"
    /\ IF ~world.isTty
       THEN /\ pc' = "panic_new"
            /\ exit_code' = 101
            /\ UNCHANGED <<fg, last_status>>
       ELSE /\ pc' = "prompt"
            /\ fg' = ShellPid
            /\ last_status' = 0
            /\ UNCHANGED exit_code
    /\ UNCHANGED <<input, tokens, command, env, cwd, diag,
                   wait_result, ignored, shell_pgid, children, child, nforks, world>>

---------------------------------------------------------------------------
(* Shell::run.                                                             *)

\* one iteration up to the dispatch: read_line, tokenize, parse
ReadLine ==
    /\ pc = "prompt"
    /\ \E line \in Lines :
         /\ input' = line
         /\ tokens' = Tokenize(line)
         /\ command' = Parse(env, Tokenize(line))
    /\ diag' = "none"
    /\ pc' = IF command'.kind = "None" THEN "prompt"
             ELSE IF command'.kind = "Panic" THEN "panic_parse"
             ELSE "execute"
    /\ exit_code' = IF command'.kind = "Panic" THEN 101 ELSE exit_code
    /\ UNCHANGED <<env, cwd, last_status, wait_result, ignored, shell_pgid, fg,
                   children, child, nforks, world>>

\* bytes_read == 0: println!("\nexit"); exit(0)
ReadEof ==
    /\ pc = "prompt"
    /\ input' = <<>>
    /\ tokens' = <<>>
    /\ command' = NoCommand
    /\ diag' = "none"
    /\ pc' = "exit_eof"
    /\ exit_code' = 0
    /\ UNCHANGED <<env, cwd, last_status, wait_result, ignored, shell_pgid, fg,
                   children, child, nforks, world>>

\* read_line(..).unwrap() on a line that is not UTF-8
ReadError ==
    /\ pc = "prompt"
    /\ input' = <<>>
    /\ tokens' = <<>>
    /\ command' = NoCommand
    /\ diag' = "none"
    /\ pc' = "panic_read"
    /\ exit_code' = 101
    /\ UNCHANGED <<env, cwd, last_status, wait_result, ignored, shell_pgid, fg,
                   children, child, nforks, world>>

---------------------------------------------------------------------------
(* Shell::handle_builtin.                                                  *)

\* BuiltinCommand::Exit
ExecExit ==
    /\ pc = "execute"
    /\ command.kind = "Exit"
    /\ pc' = "exit_builtin"
    /\ exit_code' = 0
    /\ UNCHANGED <<input, tokens, command, env, cwd, diag, last_status, wait_result,
                   ignored, shell_pgid, fg, children, child, nforks, world>>

CdTargetHomeFirst(e, args) ==
    IF Home \in DOMAIN e THEN [ok |-> TRUE, path |-> e[Home], msg |-> "none"]
    ELSE IF Len(args) = 2 THEN [ok |-> TRUE, path |-> args[2], msg |-> "none"]
    ELSE [ok |-> FALSE, path |-> <<>>, msg |-> "cd: HOME is not set"]

\* the arity policy of cd: the target, or the error it reports
CdTarget(e, args) ==
    IF Len(args) = 2 THEN [ok |-> TRUE, path |-> args[2], msg |-> "none"]
    ELSE IF Len(args) = 1
      THEN IF Home \in DOMAIN e
           THEN [ok |-> TRUE, path |-> e[Home], msg |-> "none"]
           ELSE [ok |-> FALSE, path |-> <<>>, msg |-> "cd: HOME is not set"]
    ELSE [ok |-> FALSE, path |-> <<>>, msg |-> "cd: too many arguments"]

\* BuiltinCommand::Cd(args); an Err leaves run through `?` and main's expect panics
ExecCd ==
    /\ pc = "execute"
    /\ command.kind = "Cd"
    /\ LET t == CdTarget(env, command.args)
       IN  IF ~t.ok
           THEN /\ diag' = t.msg
                /\ pc' = "panic_run"
                /\ exit_code' = 101
                /\ UNCHANGED cwd
           ELSE /\ IF t.path \in Dirs
                   THEN cwd' = t.path /\ UNCHANGED diag
                   ELSE diag' = "cd: chdir failed" /\ UNCHANGED cwd
                /\ pc' = "prompt"
                /\ UNCHANGED exit_code
    /\ UNCHANGED <<input, tokens, command, env, last_status, wait_result,
                   ignored, shell_pgid, fg, children, child, nforks, world>>

---------------------------------------------------------------------------
(* Shell::spawn_foreground, the parent.                                    *)

\* fork() returns Ok(Parent { child }): the child starts in the shell's group
Fork ==
    /\ pc = "execute"
    /\ command.kind = "External"
    /\ nforks < MaxForks
    /\ LET p == ShellPid + nforks + 1
       IN  /\ child' = p
           /\ children' = [q \in DOMAIN children \cup {p} |->
                             IF q = p
                             THEN [st |-> "setpgid", pgid |-> shell_pgid, status |-> -1,
                                   cmd |-> command.cmd, args |-> command.args]
                             ELSE children[q]]
    /\ nforks' = nforks + 1
    /\ wait_result' = -1
    /\ pc' = "parent_setpgid"
    /\ UNCHANGED <<exit_code, input, tokens, command, env, cwd, diag, last_status,
                   ignored, shell_pgid, fg, world>>

\* fork() returns Err(_): println!("Fork failed"); Ok(())
ForkFails ==
    /\ pc = "execute"
    /\ command.kind = "External"
    /\ diag' = "Fork failed"
    /\ wait_result' = -1
    /\ pc' = "prompt"
    /\ UNCHANGED <<exit_code, input, tokens, command, env, cwd, last_status,
                   ignored, shell_pgid, fg, children, child, nforks, world>>

\* let _ = setpgid(child, child): moves the child unless it is gone or has
\* already replaced its image (then the child has moved itself)
ParentSetpgid ==
    /\ pc = "parent_setpgid"
    /\ children' = IF child \in DOMAIN children
                      /\ children[child].st \in {"setpgid", "exec"}
                   THEN [children EXCEPT ![child].pgid = child]
                   ELSE children
    /\ pc' = "parent_tcsetpgrp"
    /\ UNCHANGED <<exit_code, input, tokens, command, env, cwd, diag, last_status,
                   wait_result, ignored, shell_pgid, fg, child, nforks, world>>

\* let _ = tcsetpgrp(&stdin, child): fails when no such group exists
ParentTcsetpgrp ==
    /\ pc = "parent_tcsetpgrp"
    /\ fg' = IF GroupExists(child) THEN child ELSE fg
    /\ pc' = "parent_wait"
    /\ UNCHANGED <<exit_code, input, tokens, command, env, cwd, diag, last_status,
                   wait_result, ignored, shell_pgid, children, child, nforks, world>>

ParentWaitNoHang ==
    /\ pc = "parent_wait"
    /\ pc' = "parent_reclaim"
    /\ UNCHANGED <<exit_code, input, tokens, command, env, cwd, diag, last_status,
                   wait_result, ignored, shell_pgid, fg, children, child, nforks, world>>

\* waitpid(child, None).unwrap(): blocks while the child lives, reaps it when
\* it has ended, and fails with ECHILD (the unwrap panics) when it is gone
ParentWait ==
    /\ pc = "parent_wait"
    /\ IF child \in DOMAIN children
       THEN /\ children[child].st = "zombie"
            /\ wait_result' = children[child].status
            /\ children' = [q \in DOMAIN children \ {child} |-> children[q]]
            /\ pc' = "parent_reclaim"
            /\ UNCHANGED exit_code
       ELSE /\ pc' = "panic_wait"
            /\ exit_code' = 101
            /\ UNCHANGED <<wait_result, children>>
    /\ UNCHANGED <<input, tokens, command, env, cwd, diag, last_status,
                   ignored, shell_pgid, fg, child, nforks, world>>

ParentReclaimSkipped ==
    /\ pc = "parent_reclaim"
    /\ pc' = "prompt"
    /\ UNCHANGED <<exit_code, input, tokens, command, env, cwd, diag, last_status,
                   wait_result, ignored, shell_pgid, fg, children, child, nforks, world>>

\* let pgid = getpgrp(); let _ = tcsetpgrp(&stdin, pgid); Ok(())
ParentReclaim ==
    /\ pc = "parent_reclaim"
    /\ fg' = shell_pgid
    /\ pc' = "prompt"
    /\ UNCHANGED <<exit_code, input, tokens, command, env, cwd, diag, last_status,
                   wait_result, ignored, shell_pgid, children, child, nforks, world>>

---------------------------------------------------------------------------
(* Shell::spawn_foreground, the child.                                     *)

\* some argument holds a NUL: CString::new(..).unwrap() panics
HasNul(args) == \E i \in 1..Len(args) : \E j \in 1..Len(args[i]) : args[i][j] = "NUL"

\* let _ = setpgid(Pid::from_raw(0), Pid::from_raw(0))
ChildSetpgid(p) ==
    /\ children[p].st = "setpgid"
    /\ children' = [children EXCEPT ![p].pgid = p, ![p].st = "exec"]
    /\ UNCHANGED <<pc, exit_code, input, tokens, command, env, cwd, diag, last_status,
                   wait_result, ignored, shell_pgid, fg, child, nforks, world>>

ChildExecFallsThrough(p) ==
    /\ children[p].st = "exec"
    /\ children' = IF HasNul(children[p].args) THEN Terminated(p, 101)
                   ELSE IF children[p].cmd \in Programs
                     THEN [children EXCEPT ![p].st = "running"]
                   ELSE [children EXCEPT ![p].st = "returned"]
    /\ UNCHANGED <<pc, exit_code, input, tokens, command, env, cwd, diag, last_status,
                   wait_result, ignored, shell_pgid, fg, child, nforks, world>>

\* execvp(cmd_as_cstring(), args_as_cstring()); on failure
\* write("command not found\n"); _exit(127).  A NUL in an argument panics
\* before execvp is called and the child ends with the status of a panic.
ChildExec(p) ==
    /\ children[p].st = "exec"
    /\ children' = IF HasNul(children[p].args) THEN Terminated(p, 101)
                   ELSE IF children[p].cmd \in Programs
                     THEN [children EXCEPT ![p].st = "running"]
                   ELSE Terminated(p, 127)
    /\ UNCHANGED <<pc, exit_code, input, tokens, command, env, cwd, diag, last_status,
                   wait_result, ignored, shell_pgid, fg, child, nforks, world>>

\* the target program ends
ChildExit(p) ==
    /\ children[p].st = "running"
    /\ \E s \in {0, 1} : children' = Terminated(p, s)
    /\ UNCHANGED <<pc, exit_code, input, tokens, command, env, cwd, diag, last_status,
                   wait_result, ignored, shell_pgid, fg, child, nforks, world>>

---------------------------------------------------------------------------
(* The shell with its children.                                            *)

Next ==
    \/ NewSignals
    \/ NewSetpgid
    \/ NewTcsetpgrp
    \/ ReadLine
    \/ ReadEof
    \/ ReadError
    \/ ExecExit
    \/ ExecCd
    \/ Fork
    \/ ForkFails
    \/ ParentSetpgid
    \/ ParentTcsetpgrp
    \/ ParentWait
    \/ ParentReclaim
    \/ \E p \in DOMAIN children : ChildSetpgid(p)
    \/ \E p \in DOMAIN children : ChildExec(p)
    \/ \E p \in DOMAIN children : ChildExit(p)

Spec == Init /\ [][Next]_vars

---------------------------------------------------------------------------
(* tokenize and parse as functions of every short input.                   *)

\* the characters of the inputs
TokAlphabet == {"n", " ", "$", "'", "\"", "\\", "&", ";", "!"}

\* lines that name a builtin, with single-quoted text
BuiltinInputs ==
    { <<"'", "e", "x", "i", "t", "'">>,
      <<"e", "x", "i", "t", " ", "'", "$", "n", "'">>,
      <<"c", "d", " ", "'", "$", "n", "'">>,
      <<"c", "d", " ", "$", "n", " ", "'", "n", "'">> }

\* the input of test_simple_and: hello && world
TestInputs ==
    { <<"h", "e", "l", "l", "o", " ", "&", "&", " ", "w", "o", "r", "l", "d">> }

\* two quoted segments of one character each with nothing between them
QuoteInputs ==
    { <<p, c, p, q, d, q>> :
        p \in {"'", "\""}, q \in {"'", "\""},
        c \in TokAlphabet \ {"\\"}, d \in TokAlphabet \ {"\\"} }

\* every string of at most MaxLen characters, the lines of Spec, and the
\* longer inputs above
TokInputs ==
    UNION { [1..n -> TokAlphabet] : n \in 0..MaxLen }
        \cup Lines \cup BuiltinInputs \cup TestInputs \cup QuoteInputs

\* the environments of SpecTok: nothing set, or n and $ set
TokEnvs ==
    { [k \in S |-> IF k = <<"n">> THEN <<"x", "y">> ELSE <<"7">>] :
        S \in {{}, {<<"n">>, <<"$">>}} }

TokInitState ==
    /\ pc = "tokenize"
    /\ exit_code = -1
    /\ input \in TokInputs
    /\ tokens = <<>>
    /\ command = NoCommand
    /\ env \in TokEnvs
    /\ cwd = <<"/">>
    /\ diag = "none"
    /\ last_status = 0
    /\ wait_result = -1
    /\ ignored = {}
    /\ world = [sessionLeader |-> FALSE, isTty |-> TRUE, sigchldIgnored |-> FALSE]
    /\ shell_pgid = ShellPid
    /\ fg = ShellPid
    /\ children = NoChildren
    /\ child = 0
    /\ nforks = 0

\* let tokens = parser.tokenize(input.as_str())
TokStep ==
    /\ pc = "tokenize"
    /\ tokens' = Tokenize(input)
    /\ pc' = "parse"
    /\ UNCHANGED <<exit_code, input, command, env, cwd, diag, last_status, wait_result,
                   ignored, shell_pgid, fg, children, child, nforks, world>>

\* parser.parse(tokens)
ParseStep ==
    /\ pc = "parse"
    /\ command' = Parse(env, tokens)
    /\ pc' = "parsed"
    /\ UNCHANGED <<exit_code, input, tokens, env, cwd, diag, last_status, wait_result,
                   ignored, shell_pgid, fg, children, child, nforks, world>>

TokNext == TokStep \/ ParseStep

SpecTok == TokInitState /\ [][TokNext]_vars

---------------------------------------------------------------------------
(* Properties of the read-eval loop (specification Spec).                  *)

\* a line of one or more whitespace characters and nothing else
IsBlankLine(s) == Len(s) > 0 /\ \A i \in 1..Len(s) : IsWhitespace(s[i])

\* C1: a line that consists only of whitespace yields no Command, nothing is
\* executed and the shell does not terminate: it goes on to the next read.
C1_BlankLineIgnored ==
    IsBlankLine(input) => (command.kind = "None" /\ pc = "prompt" /\ ~ShellEnded)

\* C2: when cd is run with more than one argument, or with none while HOME is
\* unset, the error is reported, the working directory is unchanged and the
\* shell goes back to reading input instead of terminating.
C2_CdArityErrorContinues ==
    [][ (pc = "execute" /\ command.kind = "Cd" /\ ~CdTarget(env, command.args).ok)
          => (diag' /= "none" /\ cwd' = cwd /\ pc' = "prompt" /\ exit_code' = -1) ]_vars

\* C3: the shell process ends only on the exit builtin, on end of input or on
\* a bootstrap failure, and on exit and end of input its status is 0.
C3_EndsOnlyOnExitEofBootstrap ==
    ShellEnded =>
        /\ pc \in {"exit_builtin", "exit_eof", "panic_new"}
        /\ (pc \in {"exit_builtin", "exit_eof"} => exit_code = 0)

\* C4: at most one child is forked and not yet reaped at any time, and the
\* shell is at the prompt or dispatching a command only when none is.
C4_AtMostOneChild ==
    /\ Cardinality(DOMAIN children) <= 1
    /\ (pc \in {"prompt", "execute"} => DOMAIN children = {})

\* the second external command is running, the first one has been reaped
C4_Witness ==
    /\ pc = "parent_wait"
    /\ nforks = 2
    /\ DOMAIN children = {child}
    /\ children[child].st = "running"

\* C5: every return of spawn_foreground to the loop leaves the terminal's
\* foreground group equal to the shell's own group; the return after a failed
\* fork has not changed the foreground group and leaves no child.
C5_ForegroundRestored ==
    [][ ((pc = "parent_reclaim" \/ (pc = "execute" /\ command.kind = "External"))
         /\ pc' = "prompt")
          => /\ fg' = shell_pgid'
             /\ (pc = "execute" =>
                   fg' = fg /\ children' = children /\ DOMAIN children' = {}) ]_vars

\* spawn_foreground has returned after waiting for a child that ended with 127
C5_Witness ==
    /\ pc = "prompt"
    /\ command.kind = "External"
    /\ wait_result = 127
    /\ children = NoChildren
    /\ fg = shell_pgid

\* C6: once the wait on the foreground child has returned and the shell is
\* back at the prompt, last_status holds the outcome of that command.
C6_LastStatusWritten ==
    (pc = "prompt" /\ wait_result /= -1) => last_status = wait_result

---------------------------------------------------------------------------
(* Properties of tokenize and parse (specification SpecTok).               *)

\* the Word tokens of the token sequence, in order
WordsOf(toks) == SelectSeq(toks, IsWord)

\* C7: parse returns for every token sequence; an External command has a
\* non-empty argv whose first element is the program; a token sequence with
\* no Word token yields no Command.
C7_ParseTotal ==
    pc = "parsed" =>
        /\ command.kind /= "Panic"
        /\ (command.kind = "External" =>
              command.args /= <<>> /\ command.args[1] = command.cmd)
        /\ (WordsOf(tokens) = <<>> => command.kind = "None")

\* C8: the token sequence tokenize returns never holds two adjacent
\* Whitespace tokens.
C8_NoAdjacentWhitespace ==
    pc \in {"parse", "parsed"} =>
        \A i \in 1..(Len(tokens) - 1) :
            ~(tokens[i].type = "Whitespace" /\ tokens[i + 1].type = "Whitespace")

\* a run of two unquoted blanks between two words has given one Whitespace token
C8_Witness ==
    /\ pc = "parse"
    /\ \A i \in 1..Len(input) : input[i] \in {"n", " "}
    /\ \E i \in 1..(Len(input) - 1) : input[i] = " " /\ input[i + 1] = " "
    /\ Len(tokens) = 3
    /\ tokens[2].type = "Whitespace"

\* s holds no $
DollarFree(s) == \A i \in 1..Len(s) : s[i] /= "$"

\* r holds a match of the variable pattern: $ followed by a name character, $ or !
HoldsReference(r) ==
    \E i \in 1..(Len(r) - 1) : r[i] = "$" /\ r[i + 1] \in NameChars \cup {"$", "!"}

\* w[i..j] is the first variable reference of w: $NAME with NAME the whole
\* run of name characters, or $$, or $!, with no $ before it
FirstReference(w, i, j) ==
    /\ w[i] = "$"
    /\ DollarFree(SubSeq(w, 1, i - 1))
    /\ \/ /\ \A m \in (i + 1)..j : w[m] \in NameChars
          /\ j = Len(w) \/ w[j + 1] \notin NameChars
       \/ j = i + 1 /\ w[j] \in {"$", "!"}

\* r is the expansion of w in the environment: r starts with the text before
\* the first reference and then the value of its name (nothing when the name
\* is unset); when no $ follows that reference the rest of r is the text
\* after it; and no reference is left in r
ExpandedTo(w, r) ==
    /\ \A i \in 1..Len(w) : \A j \in (i + 1)..Len(w) :
          FirstReference(w, i, j) =>
              LET k    == SubSeq(w, i + 1, j)
                  head == SubSeq(w, 1, i - 1)
                            \o (IF k \in DOMAIN env THEN env[k] ELSE <<>>)
                  rest == SubSeq(w, j + 1, Len(w))
              IN  /\ Len(r) >= Len(head)
                  /\ SubSeq(r, 1, Len(head)) = head
                  /\ DollarFree(rest) => r = head \o rest
    /\ ~HoldsReference(r)

\* C9: parse does not fail on a line with a word, and in every word that is
\* not SingleQuoted each $NAME, $$ and $! is replaced by the value of that
\* name, by nothing when it is unset, so that no reference text remains.
C9_Expansion ==
    pc = "parsed" =>
        LET words == WordsOf(tokens)
        IN  /\ (words /= <<>> => command.kind \in {"External", "Cd", "Exit"})
            /\ (command.kind \in {"External", "Cd"} =>
                  /\ Len(command.args) = Len(words)
                  /\ \A k \in 1..Len(words) :
                        words[k].quoting /= "SingleQuoted" =>
                            ExpandedTo(words[k].text, command.args[k]))

\* a double-quoted word with a reference to the unset n between other text
C9_Witness ==
    /\ pc = "parsed"
    /\ <<"n">> \notin DOMAIN env
    /\ input = <<"\"", "$", "n", "\"">>
    /\ command = ExternalCommand(<<>>, << <<>> >>)

\* input[i] opens and input[j] closes a pair of single quotes: nothing before
\* i quotes or escapes, and the text between holds no single quote, is not
\* empty and does not end in a backslash
ClosedSinglePair(s, i, j) ==
    /\ i < j - 1
    /\ s[i] = "'"
    /\ s[j] = "'"
    /\ \A m \in 1..(i - 1) : s[m] \notin {"'", "\"", "\\"}
    /\ \A m \in (i + 1)..(j - 1) : s[m] /= "'"
    /\ s[j - 1] /= "\\"

\* the text t is a SingleQuoted word of the line and the argument made of it
\* is t (Builtin Exit keeps no arguments)
ReachesArgv(t) ==
    command.kind \in {"External", "Cd"} =>
       \E k \in 1..Len(WordsOf(tokens)) :
          /\ WordsOf(tokens)[k] = Word(t, "SingleQuoted")
          /\ k <= Len(command.args)
          /\ command.args[k] = t

\* C10 as stated: the text between a closed pair of single quotes reaches the
\* argument vector verbatim, as a SingleQuoted word that is not expanded.
C10_SingleQuotedVerbatim ==
    pc = "parsed" =>
        \A i \in 1..Len(input) : \A j \in 1..Len(input) :
            ClosedSinglePair(input, i, j) => ReachesArgv(SubSeq(input, i + 1, j - 1))

\* C10, amended: every SingleQuoted word becomes an argument unchanged, with
\* no expansion applied whatever it holds; and the text between a closed pair
\* of single quotes reaches the argument vector verbatim when it holds no
\* backslash (tokenize processes backslash escapes inside single quotes too).
C10_SingleQuotedNotExpanded ==
    pc = "parsed" =>
        /\ \A i \in 1..Len(input) : \A j \in 1..Len(input) :
              (/\ ClosedSinglePair(input, i, j)
               /\ \A m \in (i + 1)..(j - 1) : input[m] /= "\\")
                  => ReachesArgv(SubSeq(input, i + 1, j - 1))
        /\ (command.kind \in {"External", "Cd"} =>
              \A k \in 1..Len(WordsOf(tokens)) :
                  WordsOf(tokens)[k].quoting = "SingleQuoted" =>
                      k <= Len(command.args)
                      /\ command.args[k] = WordsOf(tokens)[k].text)

\* '$n' with n set: the argument is the text $n, not the value of n
C10_Witness ==
    /\ pc = "parsed"
    /\ <<"n">> \in DOMAIN env
    /\ input = <<"'", "$", "n", "'">>
    /\ command = ExternalCommand(<<"$", "n">>, << <<"$", "n">> >>)

---------------------------------------------------------------------------
(* C11 .. C20.                                                             *)

\* the texts of the Word tokens of toks, in order
WordTexts(toks) ==
    LET ws == SelectSeq(toks, LAMBDA t : t.type = "Word")
    IN  [k \in 1..Len(ws) |-> ws[k].text]

\* the And operator and the Whitespace tokens of hello && world are dropped
\* and one External command hello with argv [hello, world] is built
HelloAndWorld ==
    input \in TestInputs =>
        command = ExternalCommand(<<"h", "e", "l", "l", "o">>,
                                  << <<"h", "e", "l", "l", "o">>,
                                     <<"w", "o", "r", "l", "d">> >>)

\* C11: for a line with a Word token parse builds one Command from the Word
\* tokens alone: Whitespace and Operator tokens give no argument and no
\* second command, and the arguments are the texts of the Word tokens in
\* their order (the text itself for a word with no $, its expansion otherwise).
C11_OneCommandFromWords ==
    pc = "parsed" =>
        LET texts == WordTexts(tokens)
        IN  /\ texts /= <<>> =>
                /\ command.kind \in {"External", "Cd", "Exit"}
                /\ DollarFree(texts[1]) =>
                     (command.kind = "Exit" <=> texts[1] = <<"e", "x", "i", "t">>)
                /\ command.kind /= "Exit" =>
                     /\ Len(command.args) = Len(texts)
                     /\ \A k \in 1..Len(texts) :
                          /\ DollarFree(texts[k]) => command.args[k] = texts[k]
                          /\ WordsOf(tokens)[k].quoting /= "SingleQuoted" =>
                                ExpandedTo(texts[k], command.args[k])
                /\ command.kind = "External" => command.cmd = command.args[1]
            /\ HelloAndWorld

\* hello && world has been parsed
C11_Witness ==
    /\ pc = "parsed"
    /\ input \in TestInputs
    /\ Len(tokens) = 5
    /\ tokens[3] = OperatorTok("And")
    /\ command.args = << <<"h", "e", "l", "l", "o">>, <<"w", "o", "r", "l", "d">> >>

\* input[i] opens a quote that is never closed: nothing before i quotes or
\* escapes, and the same quote character does not occur after i
UnterminatedAt(s, i) ==
    /\ s[i] \in {"'", "\""}
    /\ \A m \in 1..(i - 1) : s[m] \notin {"'", "\"", "\\"}
    /\ \A m \in (i + 1)..Len(s) : s[m] /= s[i]

\* C12: when the input ends inside a quote, nothing of the text after the
\* opening quote is emitted, and the tokens and the command are those of the
\* input cut before the quote.
C12_UnterminatedQuoteDropped ==
    \A i \in 1..Len(input) :
        UnterminatedAt(input, i) =>
            LET before == SubSeq(input, 1, i - 1)
            IN  /\ pc \in {"parse", "parsed"} => tokens = Tokenize(before)
                /\ pc = "parsed" => command = Parse(env, Tokenize(before))
                /\ pc \in {"parse", "parsed"} =>
                     \A k \in 1..Len(tokens) :
                         IsWord(tokens[k]) =>
                             \E a \in 1..i : \E b \in 0..(i - 1) :
                                 tokens[k].text = SubSeq(input, a, b)

\* n "n; : the word n and the blank are kept, the open quote's text is dropped
C12_Witness ==
    /\ pc = "parsed"
    /\ input = <<"n", " ", "\"", "n", ";">>
    /\ tokens = <<Word(<<"n">>, "Unquoted"), WhitespaceTok>>
    /\ command = ExternalCommand(<<"n">>, << <<"n">> >>)

\* execvp is called by child p and fails: no argument holds a NUL and the
\* program is not found
ExecFails(p) ==
    /\ children[p].st = "exec"
    /\ ~HasNul(children[p].args)
    /\ children[p].cmd \notin Programs

\* C13: when execvp fails the child ends at once with status 127 and never
\* goes back into the shell's loop, the step changes nothing of the shell
\* process, and once the wait has returned that status the shell reclaims
\* the foreground and is at the prompt again.
C13_ExecFailureEndsChild ==
    [][ /\ \A p \in DOMAIN children :
              (ExecFails(p) /\ (p \notin DOMAIN children' \/ children'[p].st /= "exec"))
                  => /\ IF p \in DOMAIN children'
                        THEN children'[p].st = "zombie" /\ children'[p].status = 127
                        ELSE world.sigchldIgnored
                     /\ <<pc, exit_code, input, tokens, command, cwd, diag,
                          last_status, shell_pgid, fg, nforks>>'
                          = <<pc, exit_code, input, tokens, command, cwd, diag,
                              last_status, shell_pgid, fg, nforks>>
        /\ \A p \in DOMAIN children' :
              children'[p].st \in {"setpgid", "exec", "running", "zombie"}
        /\ (pc = "parent_reclaim" /\ wait_result = 127)
              => (pc' = "prompt" /\ fg' = shell_pgid' /\ exit_code' = -1) ]_vars

\* b is no program: its child has ended with 127 and the shell prompts again
C13_Witness ==
    /\ pc = "prompt"
    /\ input = <<"b", "\n">>
    /\ command = ExternalCommand(<<"b">>, << <<"b">> >>)
    /\ wait_result = 127
    /\ children = NoChildren
    /\ fg = shell_pgid
    /\ exit_code = -1

\* C14: cd never forks; with one argument the target is that argument, with
\* none and HOME set it is the value of HOME; the working directory becomes
\* the target when the directory change succeeds, and when it fails the
\* error is reported and the working directory is unchanged; in both cases
\* the shell goes back to the prompt.
C14_CdByArity ==
    [][ (pc = "execute" /\ command.kind = "Cd") =>
          /\ children' = children
          /\ nforks' = nforks
          /\ \A target \in Dirs \cup {<<"b">>} :
                (\/ Len(command.args) = 2 /\ command.args[2] = target
                 \/ Len(command.args) = 1 /\ Home \in DOMAIN env /\ env[Home] = target)
                  => /\ pc' = "prompt"
                     /\ exit_code' = -1
                     /\ IF target \in Dirs
                        THEN cwd' = target /\ diag' = "none"
                        ELSE cwd' = cwd /\ diag' /= "none" ]_vars

\* after cd a, the line cd b (no such directory) is reported and leaves a
C14_Witness ==
    /\ pc = "prompt"
    /\ input = <<"c", "d", " ", "b", "\n">>
    /\ command.kind = "Cd"
    /\ diag = "cd: chdir failed"
    /\ cwd = <<"a">>
    /\ nforks = 0

\* the text a run of plain characters and backslash escapes stands for,
\* from position i on
RECURSIVE Unescaped(_, _)
Unescaped(s, i) ==
    IF i > Len(s) THEN <<>>
    ELSE IF s[i] = "\\"
         THEN IF i = Len(s) THEN <<>>
              ELSE <<(CASE s[i + 1] = "n" -> "\n"
                        [] s[i + 1] = "t" -> "\t"
                        [] s[i + 1] = "r" -> "\r"
                        [] s[i + 1] = "0" -> "NUL"
                        [] OTHER -> s[i + 1])>> \o Unescaped(s, i + 2)
         ELSE <<s[i]>> \o Unescaped(s, i + 1)

\* from position i on, every character outside an escape is none of stop
RECURSIVE OnlyEscapes(_, _, _)
OnlyEscapes(s, i, stop) ==
    IF i > Len(s) THEN TRUE
    ELSE IF s[i] = "\\" THEN OnlyEscapes(s, i + 2, stop)
    ELSE s[i] \notin stop /\ OnlyEscapes(s, i + 1, stop)

\* C15: a backslash consumes the next character, which becomes part of the
\* emitted word (n, t, r, 0 translated, anything else verbatim and without
\* its meaning as a quote, operator or separator), and a final backslash is
\* dropped: an input whose quotes, operators and blanks are all escaped and
\* which holds a visible character gives one Unquoted word holding the
\* decoded text, and such a text between a pair of quotes gives one word of
\* that quote's tag.
C15_EscapeKeepsNextChar ==
    pc \in {"parse", "parsed"} =>
        /\ (/\ OnlyEscapes(input, 1, {" ", "\n", "\t", "\r", "'", "\"", "&", ";"})
            /\ \E k \in 1..Len(Unescaped(input, 1)) :
                  Unescaped(input, 1)[k] \notin {" ", "\n", "\t", "\r"})
              => tokens = <<Word(Unescaped(input, 1), "Unquoted")>>
        /\ \A q \in {"'", "\""} :
              (/\ Len(input) >= 3
               /\ input[1] = q
               /\ input[Len(input)] = q
               /\ input[Len(input) - 1] /= "\\"
               /\ OnlyEscapes(SubSeq(input, 2, Len(input) - 1), 1, {q}))
                  => LET body == Unescaped(SubSeq(input, 2, Len(input) - 1), 1)
                     IN  tokens = IF body = <<>> THEN <<>>
                                  ELSE <<Word(body, IF q = "'" THEN "SingleQuoted"
                                                    ELSE "DoubleQuoted")>>

PlainChars == {"n", "$", "!"}

QuoteTag(q) == IF q = "'" THEN "SingleQuoted" ELSE "DoubleQuoted"

\* C16: the non-empty text between an opening quote and its closing quote is
\* one Word of that quote's tag, with blanks, operator characters and the
\* other quote kept as data; two quoted segments with nothing between them
\* give two adjacent Words and no Whitespace token.
C16_QuotedSegmentIsOneWord ==
    pc \in {"parse", "parsed"} =>
        \A q \in {"'", "\""} :
            /\ \A i \in 1..Len(input) : \A j \in (i + 2)..Len(input) :
                  (/\ input[i] = q
                   /\ input[j] = q
                   /\ \A k \in (i + 1)..(j - 1) : input[k] \notin {q, "\\"}
                   /\ \A k \in (1..(i - 1)) \cup ((j + 1)..Len(input)) :
                         input[k] \in PlainChars)
                      => tokens =
                           (IF i = 1 THEN <<>>
                            ELSE <<Word(SubSeq(input, 1, i - 1), "Unquoted")>>)
                           \o <<Word(SubSeq(input, i + 1, j - 1), QuoteTag(q))>>
                           \o (IF j = Len(input) THEN <<>>
                               ELSE <<Word(SubSeq(input, j + 1, Len(input)), "Unquoted")>>)
            /\ \A r \in {"'", "\""} :
                  (/\ Len(input) = 6
                   /\ input[1] = q /\ input[3] = q /\ input[2] \notin {q, "\\"}
                   /\ input[4] = r /\ input[6] = r /\ input[5] \notin {r, "\\"})
                      => tokens = <<Word(<<input[2]>>, QuoteTag(q)),
                                    Word(<<input[5]>>, QuoteTag(r))>>

\* '"'";" : a double quote kept inside single quotes, then an operator
\* character kept inside double quotes, as two adjacent words
C16_Witness ==
    /\ pc = "parse"
    /\ input = <<"'", "\"", "'", "\"", ";", "\"">>
    /\ tokens = <<Word(<<"\"">>, "SingleQuoted"), Word(<<";">>, "DoubleQuoted")>>

\* C17: from the start of a foreground child's target program until the
\* child ends, the terminal's foreground group is the child's own group, a
\* group other than the shell's, in every interleaving of parent and child.
C17_ChildOwnsForegroundWhileRunning ==
    \A p \in DOMAIN children :
        children[p].st = "running"
            => /\ children[p].pgid = p
               /\ children[p].pgid /= shell_pgid
               /\ fg = children[p].pgid

BootstrapPcs == {"new_signal", "new_setpgid", "new_tcsetpgrp"}

\* C18: Shell::new runs once, in order, and is over before the first line is
\* read: SIGTTOU and SIGTSTP are ignored before the shell's process group or
\* the foreground group is set, a failing step ends the shell before any
\* line is read or command executed, and the loop is entered only from the
\* last step, after all of them have succeeded.
C18_BootstrapOnceAndFirst ==
    [][ /\ (shell_pgid' /= shell_pgid \/ fg' /= fg)
              => {"SIGTTOU", "SIGTSTP"} \subseteq ignored
        /\ (pc' \in BootstrapPcs /\ pc' /= pc)
              => <<pc, pc'>> \in {<<"new_signal", "new_setpgid">>,
                                  <<"new_setpgid", "new_tcsetpgrp">>}
        /\ pc' \in BootstrapPcs \cup {"panic_new"}
              => /\ input' = <<>>
                 /\ tokens' = <<>>
                 /\ command' = NoCommand
                 /\ nforks' = 0
                 /\ children' = NoChildren
                 /\ cwd' = <<"/">>
        /\ pc' = "panic_new" => (pc \in BootstrapPcs /\ exit_code' = 101)
        /\ pc = "panic_new" => pc' = "panic_new"
        /\ (pc = "new_setpgid" /\ world.sessionLeader) => pc' = "panic_new"
        /\ (pc = "new_tcsetpgrp" /\ ~world.isTty) => pc' = "panic_new"
        /\ (pc \in BootstrapPcs /\ pc' \notin BootstrapPcs \cup {"panic_new"})
              => /\ pc = "new_tcsetpgrp"
                 /\ pc' = "prompt"
                 /\ {"SIGTTOU", "SIGTSTP"} \subseteq ignored'
                 /\ shell_pgid' = ShellPid
                 /\ fg' = ShellPid ]_vars

\* standard input is no terminal: the handlers are installed, the shell
\* leads its own group, the foreground transfer has failed and the shell
\* has ended without reading a line
C18_Witness ==
    /\ pc = "panic_new"
    /\ ~world.sessionLeader
    /\ ~world.isTty
    /\ ignored = {"SIGTTOU", "SIGTSTP"}
    /\ shell_pgid = ShellPid
    /\ fg /= ShellPid
    /\ input = <<>>
    /\ exit_code = 101

\* C19: every Word token of tokenize has a non-empty text: an empty quoted
\* segment gives no token, and every Unquoted Word holds a character that
\* is no whitespace.
C19_WordsAreNonEmpty ==
    pc \in {"parse", "parsed"} =>
        /\ \A k \in 1..Len(tokens) :
              tokens[k].type = "Word"
                  => /\ tokens[k].text /= <<>>
                     /\ tokens[k].quoting = "Unquoted"
                          => \E c \in 1..Len(tokens[k].text) :
                                tokens[k].text[c] \notin {" ", "\n", "\t", "\r"}
        /\ input \in {<<"'", "'">>, <<"\"", "\"">>} => tokens = <<>>
        /\ \A i \in 1..(Len(input) - 1) :
              (/\ input[i] \in {"'", "\""}
               /\ input[i + 1] = input[i]
               /\ \A k \in (1..Len(input)) \ {i, i + 1} : input[k] \in PlainChars)
                  => \A k \in 1..Len(tokens) :
                        tokens[k].type = "Word" /\ tokens[k].quoting = "Unquoted"

\* n '' : the empty quoted segment after the blank leaves no token
C19_Witness ==
    /\ pc = "parse"
    /\ input = <<"n", " ", "'", "'">>
    /\ tokens = <<Word(<<"n">>, "Unquoted"), WhitespaceTok>>

\* the input without its character at position i
RemoveAt(s, i) == SubSeq(s, 1, i - 1) \o SubSeq(s, i + 1, Len(s))

\* C20: an escaped dollar sign is stored as a plain one, so the tokens and
\* the command of an input with \$ are those of the same input with $, and
\* \$NAME is expanded as $NAME is; only the SingleQuoted tag keeps a
\* reference from being expanded.
C20_EscapedDollarStillExpanded ==
    /\ pc \in {"parse", "parsed"} =>
          \A i \in 1..(Len(input) - 1) :
              (/\ input[i] = "\\"
               /\ input[i + 1] = "$"
               /\ \A k \in 1..(i - 1) : input[k] /= "\\")
                  => /\ tokens = Tokenize(RemoveAt(input, i))
                     /\ pc = "parsed" => command = Parse(env, Tokenize(RemoveAt(input, i)))
    /\ pc = "parsed" =>
          LET value == IF <<"n">> \in DOMAIN env THEN env[<<"n">>] ELSE <<>>
          IN  /\ input \in {<<"\\", "$", "n">>, <<"\"", "\\", "$", "n", "\"">>}
                    => command = ExternalCommand(value, <<value>>)
              /\ input = <<"'", "\\", "$", "n", "'">>
                    => command = ExternalCommand(<<"$", "n">>, << <<"$", "n">> >>)

\* \$n with n set: the command is the value of n
C20_Witness ==
    /\ pc = "parsed"
    /\ input = <<"\\", "$", "n">>
    /\ <<"n">> \in DOMAIN env
    /\ tokens = <<Word(<<"$", "n">>, "Unquoted")>>
    /\ command = ExternalCommand(<<"x", "y">>, << <<"x", "y">> >>)

=============================================================================
